---- MODULE Spec2Model ----
(***************************************************************************)
(* Deepsearch: the reindex session (OptimizedApp.reindex_files and its     *)
(* thread_target), the ingestion run (IndexManager.index_files) and the    *)
(* index store (IndexManager.clear_index, the Whoosh writer), as a state   *)
(* machine.  The Tk main thread runs the button and timer handlers one at  *)
(* a time; every session is a daemon thread that interleaves with them     *)
(* and with the other session threads.                                     *)
(*                                                                         *)
(* Spec is the application with its sessions racing.  SpecSeq is the       *)
(* application with sessions that follow one another and searches made     *)
(* meanwhile.  SpecStore is the IndexManager called on its own.            *)
(* SpecSearch is one session run alone over folders of up to               *)
(* SearchLimit + Overflow files, and the searches on what it leaves.       *)
(* SpecPool is one session whose pool is narrower than its file list, so   *)
(* that jobs wait in the pool's queue.  SpecSnippet is _generate_snippet   *)
(* applied to contents whose lines reach past SnippetMax characters.       *)
(***************************************************************************)
EXTENDS Integers, Sequences, FiniteSets, TLC

\* Bounds of the model.
MaxSessions == 2          \* session threads ever started
NumPaths == 3             \* files the monitored folders can hold
MaxJobs == 3              \* jobs submitted to the pool, over all sessions
MaxBatch == 2             \* paths of a list handed to index_files directly

\* Program constants.
MaxDirs == 5              \* _add_folder refuses a sixth folder
max_workers == 6          \* the width of the pool thread_target asks for

Threads == 1..MaxSessions
Paths == 1..NumPaths
Dirs == {"dir"}

VARIABLES
  is_indexing,          \* self.is_indexing
  index_cancelled,      \* self.index_cancelled
  monitor_dirs,         \* self.monitor_dirs
  auto_index_interval,  \* self.auto_index_interval
  index,                \* committed index: the stored documents, in docnum order
  writeLock,            \* threads holding the lock of the current WRITELOCK file
  nthreads,             \* session threads started so far
  pc,                   \* position of each session thread
  files,                \* thread_target: files (total = its size)
  jobs,                 \* index_files: state of the future of each path
  seen,                 \* index_files: futures as_completed has yielded
  results,              \* index_files: results
  progress,             \* completed_count of every progress_callback call
  cancelledAt,          \* the future in hand when the poll returned true, if any
  wpos,                 \* commit phase: results handed to update_document
  committed,            \* paths of the batch writer.commit() made visible
  outcome,              \* what the session reported
  ixdir,                \* the index directory on disk: absent, empty, or an index
  ix,                   \* self.ix of the IndexManager
  call,                 \* the last IndexManager call: its inputs and what it returned
  search_var,           \* self.search_var: the terms typed in the search entry
  mode_var,             \* self.mode_var: "AND" or "OR"
  sort_var,             \* self.sort_var: by date or by relevance
  filters,              \* the checked ones of filter_hwp, _hwpx, _pdf, _excel
  current_results,      \* self.current_results: the list on_search shows
  unparsed,             \* the files on disk whose text cannot be extracted
  snippet,              \* the last _generate_snippet call: inputs and result
  timer                 \* _auto_index: waiting, or fired and past line 947

appVars == <<is_indexing, index_cancelled>>
uiVars == <<monitor_dirs, auto_index_interval>>
storeVars == <<index, writeLock>>
runVars == <<files, jobs, seen, results, progress, cancelledAt>>
writeVars == <<wpos, committed>>
queryVars == <<search_var, mode_var, sort_var, filters>>
mgrVars == <<ixdir, ix, call, queryVars, current_results>>
otherVars == <<unparsed, snippet, timer>>
vars == <<is_indexing, index_cancelled, monitor_dirs, auto_index_interval,
          index, writeLock, nthreads, pc, files, jobs, seen, results, progress,
          cancelledAt, wpos, committed, outcome, ixdir, ix, call, search_var,
          mode_var, sort_var, filters, current_results, unparsed, snippet,
          timer>>

\* The index directory at construction: created empty (create_in), or the
\* index an earlier process left there (open_dir).  A document is named by
\* the path it was made from; its other fields are those of the file.
EmptyIndex == << >>
StoredIndex == [p \in Paths |-> p]

Range(s) == {s[j] : j \in 1..Len(s)}

\* No IndexManager call has been made yet.  A call is recorded with its
\* inputs (the path list, the order the jobs completed in, the paths whose
\* job failed, the index files that could not be removed), whether it
\* raised, the hits search returned, and the sessions whose writer held
\* buffered documents while it ran.
NoCall ==
  [op |-> "none", file_paths |-> << >>, order |-> "none", errs |-> {},
   failed |-> {}, raised |-> FALSE, hits |-> << >>, inbatch |-> {}]

\* The filter checkboxes of the search bar.
Filters == {"hwp", "hwpx", "pdf", "excel"}

\* No _generate_snippet call has been made yet.  A call is recorded with
\* its inputs (the lines of the content, the words of the query), whether a
\* line matched, the text selected from it (line 733) and the text returned.
NoSnippet ==
  [content |-> << >>, query |-> << >>, found |-> FALSE, selected |-> << >>,
   returned |-> << >>]

Init ==
  /\ is_indexing = FALSE
  /\ index_cancelled = FALSE
  /\ monitor_dirs = {}
  /\ auto_index_interval = 0
  /\ index \in {EmptyIndex, StoredIndex}
  /\ writeLock = {}
  /\ nthreads = 0
  /\ pc = [t \in Threads |-> "unborn"]
  /\ files = [t \in Threads |-> {}]
  /\ jobs = [t \in Threads |-> [p \in Paths |-> "none"]]
  /\ seen = [t \in Threads |-> {}]
  /\ results = [t \in Threads |-> <<>>]
  /\ progress = [t \in Threads |-> <<>>]
  /\ cancelledAt = [t \in Threads |-> {}]
  /\ wpos = [t \in Threads |-> 0]
  /\ committed = [t \in Threads |-> {}]
  /\ outcome = [t \in Threads |-> "none"]
  /\ ixdir = "index"
  /\ ix = "open"
  /\ call = NoCall
  /\ search_var = << >>
  /\ mode_var = "OR"
  /\ sort_var = "relevance"
  /\ filters = Filters
  /\ current_results = << >>
  /\ unparsed = {}
  /\ snippet = NoSnippet
  /\ timer = "waiting"

(***************************************************************************)
(* The Tk main thread: settings dialog, reindex button, auto-index timer.  *)
(***************************************************************************)

\* The handlers of the main thread run one at a time: none starts while
\* _auto_index is between its test at line 947 and its call at line 948.
MainFree == timer = "waiting"

\* _add_folder: a folder joins monitor_dirs unless five are already there.
AddFolder ==
  /\ MainFree
  /\ \E d \in Dirs :
       monitor_dirs' = IF Cardinality(monitor_dirs) >= MaxDirs
                       THEN monitor_dirs
                       ELSE monitor_dirs \cup {d}
  /\ UNCHANGED <<mgrVars, otherVars>>
  /\ UNCHANGED <<appVars, auto_index_interval, storeVars, nthreads, pc,
                 runVars, writeVars, outcome>>

\* _remove_folder: the selected folder leaves monitor_dirs.
RemoveFolder ==
  /\ MainFree
  /\ \E d \in monitor_dirs : monitor_dirs' = monitor_dirs \ {d}
  /\ UNCHANGED <<mgrVars, otherVars>>
  /\ UNCHANGED <<appVars, auto_index_interval, storeVars, nthreads, pc,
                 runVars, writeVars, outcome>>

\* apply_settings: stores the interval (0 = off).  _schedule_auto_index keeps
\* an after() callback for _auto_index pending exactly while the interval
\* is positive.
ApplySettings ==
  /\ MainFree
  /\ \E v \in {0, 1} : auto_index_interval' = v
  /\ UNCHANGED <<mgrVars, otherVars>>
  /\ UNCHANGED <<appVars, monitor_dirs, storeVars, nthreads, pc,
                 runVars, writeVars, outcome>>

\* A faulty variant of reindex_files: a request during Indexing also starts a session.
reindex_files_restart ==
  IF is_indexing
  THEN /\ index_cancelled' = TRUE
       /\ nthreads < MaxSessions
       /\ nthreads' = nthreads + 1
       /\ pc' = [pc EXCEPT ![nthreads + 1] = "start"]
  ELSE IF monitor_dirs = {}
  THEN UNCHANGED <<index_cancelled, nthreads, pc>>
  ELSE /\ nthreads < MaxSessions
       /\ nthreads' = nthreads + 1
       /\ pc' = [pc EXCEPT ![nthreads + 1] = "start"]
       /\ UNCHANGED index_cancelled

\* reindex_files, the part that runs on the calling thread: a request during
\* Indexing only raises the cancel flag; with no folder it only warns;
\* otherwise it starts a daemon thread running thread_target.  is_indexing
\* is not written here: thread_target sets it once the thread runs.
reindex_files ==
  IF is_indexing
  THEN /\ index_cancelled' = TRUE
       /\ UNCHANGED <<nthreads, pc>>
  ELSE IF monitor_dirs = {}
  THEN UNCHANGED <<index_cancelled, nthreads, pc>>
  ELSE /\ nthreads < MaxSessions
       /\ nthreads' = nthreads + 1
       /\ pc' = [pc EXCEPT ![nthreads + 1] = "start"]
       /\ UNCHANGED index_cancelled

\* The reindex button.
ReindexClick ==
  /\ MainFree
  /\ reindex_files
  /\ UNCHANGED <<mgrVars, otherVars>>
  /\ UNCHANGED <<is_indexing, uiVars, storeVars, runVars, writeVars, outcome>>

\* _auto_index, line 947: the timer fires (it is pending while the interval
\* is positive) and is_indexing is read; when it is true nothing is done but
\* to schedule the next firing.  The timer is followed while a session can
\* still be started.
AutoIndex ==
  /\ MainFree
  /\ auto_index_interval > 0
  /\ nthreads < MaxSessions
  /\ timer' = IF ~is_indexing THEN "fired" ELSE "waiting"
  /\ UNCHANGED <<mgrVars, unparsed, snippet>>
  /\ UNCHANGED <<appVars, uiVars, storeVars, nthreads, pc, runVars, writeVars,
                 outcome>>

\* _auto_index, line 948: reindex_files is called; it reads is_indexing
\* again at line 755, after whatever the session threads did meanwhile.
AutoIndexCall ==
  /\ timer = "fired"
  /\ reindex_files
  /\ timer' = "waiting"
  /\ UNCHANGED <<mgrVars, unparsed, snippet>>
  /\ UNCHANGED <<is_indexing, uiVars, storeVars, runVars, writeVars, outcome>>

(***************************************************************************)
(* thread_target: the session thread up to the call of index_files.        *)
(***************************************************************************)

\* Line 765: self.is_indexing = True.
SetIndexing(t) ==
  /\ pc[t] = "start"
  /\ is_indexing' = TRUE
  /\ pc' = [pc EXCEPT ![t] = "reset"]
  /\ UNCHANGED <<mgrVars, otherVars>>
  /\ UNCHANGED <<index_cancelled, uiVars, storeVars, nthreads, runVars,
                 writeVars, outcome>>

\* Line 766: self.index_cancelled = False.
ResetCancelled(t) ==
  /\ pc[t] = "reset"
  /\ index_cancelled' = FALSE
  /\ pc' = [pc EXCEPT ![t] = "clear"]
  /\ UNCHANGED <<mgrVars, otherVars>>
  /\ UNCHANGED <<is_indexing, uiVars, storeVars, nthreads, runVars,
                 writeVars, outcome>>

\* An exception leaves thread_target: nothing catches it, the thread ends,
\* no outcome is reported and is_indexing keeps its value.
Raise(t) ==
  /\ pc' = [pc EXCEPT ![t] = "crashed"]
  /\ outcome' = [outcome EXCEPT ![t] = "Raised"]

\* The kinds of file the index directory holds: the table of contents
\* (_MAIN_n.toc), the segment files, the WRITELOCK file.
IndexFiles == {"toc", "segment", "lock"}

\* A faulty variant of create_in: a file that could not be removed keeps the old
\* documents in the new index.
create_in_leftover(old, failed) ==
  IF failed \cap {"toc", "segment"} # {} THEN old ELSE EmptyIndex

\* Lines 298-299, create_in and open_dir when they return, `failed` being
\* the files whose removal failed twice in the loop before: create_in removes
\* every table of contents itself (and raises when it cannot) and writes a
\* new one that lists no segment, so a segment file left behind belongs to
\* no index.
create_in(old, failed) == EmptyIndex

\* clear_index: closes the index, removes every file of the directory (a
\* removal that fails twice is only logged), then create_in and open_dir.
\* The WRITELOCK file goes with the others where the platform lets a held
\* file be removed, and stays where it does not.  create_in removes the
\* tables of contents itself, unguarded: when the one the loop could not
\* remove still cannot be removed, it raises, and clear_index catches
\* nothing around it: self.ix then stays the closed index.
clear_index_returns(failed) ==
  /\ index' = create_in(index, failed)
  /\ writeLock' = IF "lock" \in failed THEN writeLock ELSE {}
  /\ ix' = "open"

clear_index_raises(failed) ==
  /\ "toc" \in failed
  /\ ix' = "closed"
  /\ UNCHANGED storeVars

\* Line 775: the session calls clear_index.
ClearIndex(t) ==
  /\ pc[t] = "clear"
  /\ \/ /\ \E failed \in SUBSET IndexFiles : clear_index_returns(failed)
        /\ pc' = [pc EXCEPT ![t] = "collect"]
        /\ UNCHANGED outcome
     \/ /\ \E failed \in SUBSET IndexFiles : clear_index_raises(failed)
        /\ Raise(t)
  /\ UNCHANGED <<ixdir, call, queryVars, current_results, otherVars>>
  /\ UNCHANGED <<appVars, uiVars, nthreads, runVars, writeVars>>

\* Line 321: the job submitted for the path p of the list fs to a pool of
\* width workers.  A worker thread is made for each of the first jobs, which
\* start at once; the later ones wait in the queue of the pool.
Submitted(fs, p, workers) ==
  IF Cardinality({x \in fs : x < p}) < workers THEN "pending" ELSE "queued"

RECURSIVE SubmittedBy(_)
\* The jobs the sessions of T have submitted.
SubmittedBy(T) ==
  IF T = {} THEN 0
  ELSE LET t == CHOOSE x \in T : TRUE
       IN Cardinality(files[t]) + SubmittedBy(T \ {t})

\* Lines 776-784 and 320-321: _collect_files walks the folders; with no file
\* the session says so and returns to Idle, otherwise index_files submits
\* one parse_job per path to the pool.
CollectFiles(t) ==
  /\ pc[t] = "collect"
  /\ \E fs \in SUBSET Paths :
       /\ Cardinality(fs) + SubmittedBy(Threads) <= MaxJobs
       /\ files' = [files EXCEPT ![t] = fs]
       /\ IF fs = {}
          THEN /\ is_indexing' = FALSE
               /\ outcome' = [outcome EXCEPT ![t] = "NoFiles"]
               /\ pc' = [pc EXCEPT ![t] = "done"]
               /\ UNCHANGED jobs
          ELSE /\ jobs' = [jobs EXCEPT ![t] =
                             [p \in Paths |-> IF p \in fs THEN Submitted(fs, p, max_workers)
                                              ELSE "none"]]
               /\ pc' = [pc EXCEPT ![t] = "loop"]
               /\ UNCHANGED <<is_indexing, outcome>>
  /\ UNCHANGED <<mgrVars, otherVars>>
  /\ UNCHANGED <<index_cancelled, uiVars, storeVars, nthreads, seen, results,
                 progress, cancelledAt, writeVars>>

(***************************************************************************)
(* index_files: the pool, the as_completed loop, the commit phase.         *)
(***************************************************************************)

\* parse_job: returns the fields, or the error tuple when reading the file's
\* metadata fails.  It catches every Exception itself, so its future never
\* raises one and the handler at line 336 has nothing to catch.
ParseOutcomes == {"ok", "err"}

\* A worker of a pool of that width, having finished a job, takes the next
\* one from the queue, in the order of submission.  No job is queued while
\* the files are no more than the workers.
JobStart(t, p, workers) ==
  /\ pc[t] \in {"loop", "drain"}
  /\ jobs[t][p] = "queued"
  /\ \A x \in files[t] : x < p => jobs[t][x] # "queued"
  /\ Cardinality({x \in files[t] : jobs[t][x] = "pending"}) < workers
  /\ jobs' = [jobs EXCEPT ![t][p] = "pending"]
  /\ UNCHANGED <<mgrVars, otherVars>>
  /\ UNCHANGED <<appVars, uiVars, storeVars, nthreads, pc, files, seen, results,
                 progress, cancelledAt, writeVars, outcome>>

\* A worker finishes the job it is running ("pending": submitted, started,
\* not finished).
JobDone(t, p) ==
  /\ pc[t] \in {"loop", "drain"}
  /\ jobs[t][p] = "pending"
  /\ \E o \in ParseOutcomes : jobs' = [jobs EXCEPT ![t][p] = o]
  /\ UNCHANGED <<mgrVars, otherVars>>
  /\ UNCHANGED <<appVars, uiVars, storeVars, nthreads, pc, files, seen, results,
                 progress, cancelledAt, writeVars, outcome>>

\* A faulty variant of IterResults: the result of the job at which the poll returned
\* true is still appended.
IterResults_late(res, p, o, cancelled) ==
  IF o = "err" THEN res ELSE Append(res, p)

\* A faulty variant of IterResults: a failed job is appended like a successful one.
IterResults_all(res, p, o, cancelled) ==
  IF cancelled THEN res ELSE Append(res, p)

\* Lines 323-335: results after one iteration for the future of path p with
\* outcome o: nothing on break, nothing for an error tuple.
IterResults(res, p, o, cancelled) ==
  IF cancelled THEN res
  ELSE IF o = "err" THEN res
  ELSE Append(res, p)

\* Lines 323-341: the progress_callback calls of iteration i.  An error tuple
\* calls it at line 333, and the continue then runs the finally block, which
\* calls it again at line 341.
IterProgress(prog, i, o, cancelled) ==
  IF cancelled THEN prog
  ELSE IF o = "err" THEN Append(Append(prog, i), i)
  ELSE Append(prog, i)

\* A faulty variant of IterPc: the loop goes on after a poll returned true.
IterPc_continue(cancelled, last) ==
  IF last THEN "drain" ELSE "loop"

\* Lines 322-325: the loop ends on break or when as_completed is exhausted.
IterPc(cancelled, last) ==
  IF cancelled \/ last THEN "drain" ELSE "loop"

\* One iteration of the loop at line 322: as_completed yields a finished
\* future, cancel_callback (lambda: self.index_cancelled) is polled, and
\* unless it is true the result is taken and progress is reported.
LoopIter(t) ==
  /\ pc[t] = "loop"
  /\ \E p \in files[t] \ seen[t] :
       /\ jobs[t][p] \in ParseOutcomes
       /\ LET i == Cardinality(seen[t]) + 1
              cancelled == index_cancelled
          IN /\ seen' = [seen EXCEPT ![t] = @ \cup {p}]
             /\ cancelledAt' = [cancelledAt EXCEPT ![t] =
                                 IF cancelled THEN {p} ELSE @]
             /\ results' = [results EXCEPT ![t] =
                              IterResults(@, p, jobs[t][p], cancelled)]
             /\ progress' = [progress EXCEPT ![t] =
                               IterProgress(@, i, jobs[t][p], cancelled)]
             /\ pc' = [pc EXCEPT ![t] =
                         IterPc(cancelled, seen[t] \cup {p} = files[t])]
  /\ UNCHANGED <<mgrVars, otherVars>>
  /\ UNCHANGED <<appVars, uiVars, storeVars, nthreads, files, jobs, writeVars,
                 outcome>>

\* A faulty variant of OpenWriter: the writer is opened without waiting for the
\* jobs the loop has not observed.
OpenWriter_nowait(t) ==
  /\ pc[t] = "drain"
  /\ IF writeLock = {}
     THEN /\ writeLock' = {t}
          /\ wpos' = [wpos EXCEPT ![t] = 0]
          /\ pc' = [pc EXCEPT ![t] = "write"]
          /\ UNCHANGED <<outcome, index, committed>>
     ELSE /\ pc' = [pc EXCEPT ![t] = "crashed"]
          /\ outcome' = [outcome EXCEPT ![t] = "Raised"]
          /\ UNCHANGED <<storeVars, writeVars>>
  /\ UNCHANGED <<mgrVars, otherVars>>
  /\ UNCHANGED <<appVars, uiVars, nthreads, runVars>>

\* Lines 320 and 347.  Leaving the with block, shutdown(wait=True) returns
\* once every submitted job has finished, observed or not; then
\* self.ix.writer() takes the write lock without waiting and raises
\* LockError when it is held.
OpenWriter(t) ==
  /\ pc[t] = "drain"
  /\ \A p \in files[t] : jobs[t][p] \in ParseOutcomes
  /\ IF writeLock = {}
     THEN /\ writeLock' = {t}
          /\ wpos' = [wpos EXCEPT ![t] = 0]
          /\ pc' = [pc EXCEPT ![t] = "write"]
          /\ UNCHANGED <<outcome, index, committed>>
     ELSE /\ Raise(t)
          /\ UNCHANGED <<storeVars, writeVars>>
  /\ UNCHANGED <<mgrVars, otherVars>>
  /\ UNCHANGED <<appVars, uiVars, nthreads, runVars>>

\* The lock of a writer that is dropped by an exception: released when the
\* writer object is collected, held until then.
DroppedLock(t) == {writeLock, writeLock \ {t}}

\* A faulty variant of UpdateDocument: the document is visible before the commit.
UpdateDocument_unbuffered(t) ==
  /\ pc[t] = "write"
  /\ wpos[t] < Len(results[t])
  /\ \/ /\ wpos' = [wpos EXCEPT ![t] = @ + 1]
        /\ LET p == results[t][wpos[t] + 1]
           IN index' = Append(SelectSeq(index, LAMBDA d : d # p), p)
        /\ UNCHANGED <<pc, outcome, writeLock>>
     \/ /\ Raise(t)
        /\ writeLock' \in DroppedLock(t)
        /\ UNCHANGED <<index, wpos>>
  /\ UNCHANGED <<mgrVars, otherVars>>
  /\ UNCHANGED <<appVars, uiVars, nthreads, runVars, committed>>

\* Lines 348-355: writer.update_document for the next result; the writer
\* buffers it, the index readers see is untouched.  It can raise.
UpdateDocument(t) ==
  /\ pc[t] = "write"
  /\ wpos[t] < Len(results[t])
  /\ \/ /\ wpos' = [wpos EXCEPT ![t] = @ + 1]
        /\ UNCHANGED <<pc, outcome, writeLock>>
     \/ /\ Raise(t)
        /\ writeLock' \in DroppedLock(t)
        /\ UNCHANGED wpos
  /\ UNCHANGED <<mgrVars, otherVars>>
  /\ UNCHANGED <<appVars, uiVars, index, nthreads, runVars, committed>>

\* update_document on a schema whose path field is unique.  The writer w
\* holds the segments it found when it was opened and the documents it has
\* buffered since.  The documents to delete are looked up with the writer's
\* searcher, which reads those segments only: the stored documents of the
\* path are deleted, a document buffered for the same path by this writer
\* is not, and one document is added.
update_document(w, p) ==
  [segments |-> SelectSeq(w.segments, LAMBDA d : d # p),
   added |-> Append(w.added, p)]

\* Lines 348-356: the index a writer opened on `stored` leaves when it
\* commits after the loop over the batch.  Every update_document of the loop
\* deletes among the stored documents and buffers one document, so what
\* survives of a stored document is decided by each update on its own; the
\* buffered documents become a new segment behind the survivors.
ApplyUpdates(stored, batch) ==
  LET alone(d) == [segments |-> <<d>>, added |-> << >>]
      Survives(d) ==
        \A j \in 1..Len(batch) :
          update_document(alone(d), batch[j]).segments = <<d>>
      Buffered(j) == update_document(alone(batch[j]), batch[j]).added[1]
  IN SelectSeq(stored, Survives) \o [j \in 1..Len(batch) |-> Buffered(j)]

\* Line 356: writer.commit() makes the whole batch visible in one step and
\* releases the write lock; it can raise, and then nothing is visible.
Commit(t) ==
  /\ pc[t] = "write"
  /\ wpos[t] = Len(results[t])
  /\ \/ /\ index' = ApplyUpdates(index, results[t])
        /\ committed' = [committed EXCEPT ![t] = Range(results[t])]
        /\ writeLock' = writeLock \ {t}
        /\ pc' = [pc EXCEPT ![t] = "report"]
        /\ UNCHANGED outcome
     \/ /\ Raise(t)
        /\ writeLock' \in DroppedLock(t)
        /\ UNCHANGED <<index, committed>>
  /\ UNCHANGED <<mgrVars, otherVars>>
  /\ UNCHANGED <<appVars, uiVars, nthreads, runVars, wpos>>

(***************************************************************************)
(* thread_target after index_files returned.                               *)
(***************************************************************************)

\* Line 777: total = len(files), the count the Completed message shows.
total(t) == Cardinality(files[t])

\* Lines 805-810: the session reads index_cancelled again and reports
\* Cancelled or Completed (with total).
Report(t) ==
  /\ pc[t] = "report"
  /\ outcome' = [outcome EXCEPT ![t] =
                   IF index_cancelled THEN "Cancelled" ELSE "Completed"]
  /\ pc' = [pc EXCEPT ![t] = "finish"]
  /\ UNCHANGED <<mgrVars, otherVars>>
  /\ UNCHANGED <<appVars, uiVars, storeVars, nthreads, runVars, writeVars>>

\* Line 813: self.is_indexing = False.
Finish(t) ==
  /\ pc[t] = "finish"
  /\ is_indexing' = FALSE
  /\ pc' = [pc EXCEPT ![t] = "done"]
  /\ UNCHANGED <<mgrVars, otherVars>>
  /\ UNCHANGED <<index_cancelled, uiVars, storeVars, nthreads, runVars,
                 writeVars, outcome>>

Next ==
  \/ AddFolder
  \/ RemoveFolder
  \/ ApplySettings
  \/ ReindexClick
  \/ AutoIndex
  \/ AutoIndexCall
  \/ \E t \in Threads : SetIndexing(t)
  \/ \E t \in Threads : ResetCancelled(t)
  \/ \E t \in Threads : ClearIndex(t)
  \/ \E t \in Threads : CollectFiles(t)
  \/ \E t \in Threads : \E p \in Paths : JobDone(t, p)
  \/ \E t \in Threads : LoopIter(t)
  \/ \E t \in Threads : OpenWriter(t)
  \/ \E t \in Threads : UpdateDocument(t)
  \/ \E t \in Threads : Commit(t)
  \/ \E t \in Threads : Report(t)
  \/ \E t \in Threads : Finish(t)

Spec == Init /\ [][Next]_vars

(***************************************************************************)
(* The documents.  A document is made from the file at its path: its       *)
(* fields are what parse_job read there.                                   *)
(***************************************************************************)

\* Program constants.
SearchLimit == 50         \* limit=50 of searcher.search

\* Bounds of the search model.
Overflow == 2             \* files a folder can hold beyond SearchLimit

\* The words file names, contents and queries are made of.
Terms == {"a", "b", "c"}

\* filename: the tokens of os.path.basename(fpath).
FilenameTerms(p) ==
  (IF p % 4 = 2 THEN {"a"} ELSE {}) \cup (IF p % 5 = 0 THEN {"b"} ELSE {})

\* The tokens of the text a file holds; "c" is in every file.
Text(p) ==
  {"c"} \cup (IF p % 2 = 1 THEN {"a"} ELSE {})
        \cup (IF p % 3 # 1 THEN {"b"} ELSE {})

\* A faulty variant of parse_file: the text is returned also for a file of bad.
parse_file_text(p, bad) == Text(p)

\* FileParser.parse_file: the text of the file, or the empty string for a
\* file of bad, the files whose extraction fails.  A parser that fails
\* logs and returns "", and the ValueError get_parser raises for an
\* extension it does not know is caught at line 255 with the same result.
parse_file(p, bad) == IF p \in bad THEN {} ELSE Text(p)

\* content: the tokens of the extracted text (line 310).
ContentTerms(p) == parse_file(p, unparsed)

\* modified: os.path.getmtime(fpath); several files share a timestamp.
Modified(p) == p % 4

\* The extensions _collect_files lets through.
Extensions == <<".hwp", ".hwpx", ".pdf", ".xls", ".xlsx">>

\* extension: os.path.splitext(fpath)[1].lower().
Extension(p) == Extensions[(p % 5) + 1]

(***************************************************************************)
(* IndexManager.search.                                                    *)
(***************************************************************************)

\* The queries: one or two terms.
Queries ==
  {<<t>> : t \in Terms} \cup {<<t, u>> : <<t, u>> \in Terms \X Terms}

\* A query string the parser does not accept: parser.parse (line 368) raises
\* on it.  Which strings these are is the library's matter.
Unparsable == <<"unparsable">>

\* A faulty variant of group: the two groups are swapped.
group_swapped(and_mode) == IF and_mode THEN "OrGroup" ELSE "AndGroup"

\* Line 366: group=AndGroup if and_mode else OrGroup.
group(and_mode) == IF and_mode THEN "AndGroup" ELSE "OrGroup"

\* MultifieldParser(["filename", "content"]): a term of the query matches a
\* document that has it in either field.
TermMatches(p, t) == t \in FilenameTerms(p) \cup ContentTerms(p)

\* Lines 364-368: the parsed query joins its terms by the group.
QueryMatches(p, q, g) ==
  IF g = "AndGroup"
  THEN \A j \in 1..Len(q) : TermMatches(p, q[j])
  ELSE \E j \in 1..Len(q) : TermMatches(p, q[j])

\* The stored documents the query matches, in docnum order.
Matching(stored, q, and_mode) ==
  SelectSeq(stored, LAMBDA p : QueryMatches(p, q, group(and_mode)))

\* The relevance score of a matching document.  The scorer (BM25F) is the
\* library's; the model ranks by the number of (term, field) pairs of the
\* query the document has.
Score(p, q) ==
  Cardinality({j \in 1..Len(q) : q[j] \in FilenameTerms(p)})
    + Cardinality({j \in 1..Len(q) : q[j] \in ContentTerms(p)})

\* A faulty variant of SortKey: sortedby is dropped, every search ranks by score.
SortKey_score(p, q, sort_by) == Score(p, q)

\* Lines 370-373: sortedby="modified" for sort_by = "date", the score
\* otherwise.
SortKey(p, q, sort_by) == IF sort_by = "date" THEN Modified(p) ELSE Score(p, q)

RECURSIVE SortedDesc(_, _, _)
\* docs by decreasing key, the keys being those of ks; documents of equal
\* key stay in docnum order.
SortedDesc(docs, key, ks) ==
  IF ks = {} THEN << >>
  ELSE LET k == CHOOSE x \in ks : \A y \in ks : y <= x
       IN SelectSeq(docs, LAMBDA d : key[d] = k)
            \o SortedDesc(docs, key, ks \ {k})

\* The matching documents in the order of the search: reverse=True for the
\* date, best score first otherwise.
Ranked(stored, q, and_mode, sort_by) ==
  LET docs == Matching(stored, q, and_mode)
      key == [p \in Range(docs) |-> SortKey(p, q, sort_by)]
  IN SortedDesc(docs, key, {key[p] : p \in Range(docs)})

\* A faulty variant of Limit: no limit.
Limit_none(hits, n) == hits

\* A faulty variant of Limit: one hit fewer than the limit.
Limit_short(hits, n) ==
  IF Len(hits) < n THEN hits ELSE SubSeq(hits, 1, n - 1)

\* limit=n: the first n hits.
Limit(hits, n) == IF Len(hits) <= n THEN hits ELSE SubSeq(hits, 1, n)

\* Lines 362-385: the hits search returns, as the documents they show.
search(stored, q, and_mode, sort_by) ==
  Limit(Ranked(stored, q, and_mode, sort_by), SearchLimit)

(***************************************************************************)
(* on_search and the search bar.                                           *)
(***************************************************************************)

\* Lines 645-653: a hit is dropped when the checkbox of its extension is
\* unchecked.
Passes(p, sel) ==
  LET ext == Extension(p)
  IN ~ \/ (ext = ".hwp" /\ "hwp" \notin sel)
       \/ (ext = ".hwpx" /\ "hwpx" \notin sel)
       \/ (ext = ".pdf" /\ "pdf" \notin sel)
       \/ (ext \in {".xls", ".xlsx"} /\ "excel" \notin sel)

\* A faulty variant of Shown: the filter runs before the limit, so a hit beyond
\* the limit takes the place of a dropped one.
Shown_refilled(stored, q, and_mode, sort_by, sel) ==
  Limit(SelectSeq(Ranked(stored, q, and_mode, sort_by),
                  LAMBDA p : Passes(p, sel)), SearchLimit)

\* Lines 641-656: the list on_search shows, the hits of one search filtered.
Shown(stored, q, and_mode, sort_by, sel) ==
  SelectSeq(search(stored, q, and_mode, sort_by), LAMBDA p : Passes(p, sel))

\* The sessions whose writer holds buffered documents.
InBatch == {t \in Threads : pc[t] = "write" /\ wpos[t] > 0}

\* on_search: nothing is searched for an empty entry.  search opens a
\* searcher on self.ix; on the closed index a failed clear_index left behind
\* it raises or reads what is still there.  Nothing in search catches what
\* parser.parse raises, and on_search catches nothing: the exception leaves
\* the handler at line 641, before current_results or the list is touched.
OnSearch ==
  /\ MainFree
  /\ IF search_var = << >>
     THEN UNCHANGED <<call, current_results>>
     ELSE \/ /\ ix = "open" \/ ix = "closed"
             /\ search_var # Unparsable
             /\ call' = [NoCall EXCEPT
                           !.op = "search",
                           !.hits = search(index, search_var, mode_var = "AND",
                                           sort_var),
                           !.inbatch = InBatch]
             /\ current_results' = Shown(index, search_var, mode_var = "AND",
                                         sort_var, filters)
          \/ /\ ix # "open" \/ search_var = Unparsable
             /\ call' = [NoCall EXCEPT !.op = "search", !.raised = TRUE]
             /\ UNCHANGED current_results
  /\ UNCHANGED <<appVars, uiVars, storeVars, nthreads, pc, runVars, writeVars,
                 outcome, ixdir, ix, queryVars, otherVars>>

(***************************************************************************)
(* _generate_snippet.  A text is the sequence of its characters.           *)
(***************************************************************************)

\* Program constants.
SnippetMax == 100         \* snippet_line[:100]

\* Bounds of the snippet model.
MaxExcess == 2            \* characters a line can have beyond SnippetMax
MaxPad == 1               \* blanks before and after the text of a line

Newline == "\n"
Blank == " "
Ellipsis == <<".", ".", ".">>
Digits == <<"0", "1", "2", "3", "4", "5", "6", "7", "8", "9">>

\* The characters \w matches, among those the texts are made of.
WordChars == {"k", "K", "x", "z"} \cup Range(Digits)

\* str.lower, character by character.
Lower(c) == IF c = "K" THEN "k" ELSE IF c = "X" THEN "x" ELSE c

LowerSeq(s) == [j \in 1..Len(s) |-> Lower(s[j])]

\* content.split("\n"): the texts between the newlines, at least one.
Split(content) ==
  LET breaks == {j \in 1..Len(content) : content[j] = Newline}
      \* the place of the i-th newline; 0 and Len + 1 stand at the two ends
      Break(i) ==
        IF i = 0 THEN 0
        ELSE IF i > Cardinality(breaks) THEN Len(content) + 1
        ELSE CHOOSE j \in breaks : Cardinality({k \in breaks : k < j}) = i - 1
  IN [i \in 1..(Cardinality(breaks) + 1) |->
        SubSeq(content, Break(i - 1) + 1, Break(i) - 1)]

\* re.findall(r"\b\w+\b", query.lower()): the query is given as its words.
query_terms(query) == [j \in 1..Len(query) |-> LowerSeq(query[j])]

\* term in text: the term is a run of characters of the text.
Contains(text, term) ==
  \E i \in 0..(Len(text) - Len(term)) : SubSeq(text, i + 1, i + Len(term)) = term

\* Line 729: any(term in line.lower() for term in query_terms).
LineMatches(line, terms) ==
  \E j \in 1..Len(terms) : Contains(LowerSeq(line), terms[j])

\* str.strip: the text without its leading and trailing blanks.
Strip(text) ==
  LET inked == {j \in 1..Len(text) : text[j] # Blank}
  IN IF inked = {} THEN << >>
     ELSE SubSeq(text, CHOOSE j \in inked : \A k \in inked : j <= k,
                       CHOOSE j \in inked : \A k \in inked : k <= j)

\* A faulty variant of Truncate: the ellipsis is added to every line.
Truncate_always(snippet_line) ==
  (IF Len(snippet_line) > SnippetMax
   THEN SubSeq(snippet_line, 1, SnippetMax) ELSE snippet_line) \o Ellipsis

\* Line 733: snippet_line[:100] + "..." if len(snippet_line) > 100 else
\* snippet_line.
Truncate(snippet_line) ==
  IF Len(snippet_line) > SnippetMax
  THEN SubSeq(snippet_line, 1, SnippetMax) \o Ellipsis
  ELSE snippet_line

\* Line 735 for one term: re.sub(rf'\b({term})\b', r'**\1**', snippet,
\* flags=re.IGNORECASE).  The term is made of word characters, so two of its
\* whole-word occurrences never overlap and every one of them is marked.
Mark(text, term) ==
  LET n == Len(term)
      IsWord(j) == j \in 1..Len(text) /\ text[j] \in WordChars
      starts == {i \in 1..(Len(text) - n + 1) :
                   /\ LowerSeq(SubSeq(text, i, i + n - 1)) = term
                   /\ ~IsWord(i - 1)
                   /\ ~IsWord(i + n)}
      \* the asterisks that stand before the j-th character of the text
      Before(j) ==
        2 * Cardinality({i \in starts : i <= j})
          + 2 * Cardinality({i \in starts : i + n - 1 < j})
      Place(j) == j + Before(j)
  IN [k \in 1..(Len(text) + 4 * Cardinality(starts)) |->
        IF \E j \in 1..Len(text) : Place(j) = k
        THEN text[CHOOSE j \in 1..Len(text) : Place(j) = k]
        ELSE "*"]

RECURSIVE MarkAll(_, _)
\* Lines 734-735: the terms are marked one after the other.
MarkAll(text, terms) ==
  IF terms = << >> THEN text
  ELSE MarkAll(Mark(text, Head(terms)), Tail(terms))

\* The arrow and the blank every returned text starts with.
Arrow == <<">", " ">>

\* Line 737: what is returned when no line matches (lines is never empty).
NoPreview == Arrow \o <<"[no preview]">>

\* _generate_snippet: the first line one of the terms is in, stripped and
\* truncated, then marked and prefixed.
_generate_snippet(content, query) ==
  LET lines == Split(content)
      terms == query_terms(query)
      hits == {i \in 1..Len(lines) : LineMatches(lines[i], terms)}
      first == CHOOSE i \in hits : \A k \in hits : i <= k
      snippet_line == IF hits = {} THEN << >> ELSE Strip(lines[first])
  IN IF snippet_line # << >>
     THEN [content |-> content, query |-> query, found |-> TRUE,
           selected |-> Truncate(snippet_line),
           returned |-> Arrow \o MarkAll(Truncate(snippet_line), terms)]
     ELSE [content |-> content, query |-> query, found |-> FALSE,
           selected |-> << >>, returned |-> NoPreview]

(***************************************************************************)
(* Sessions that follow one another, and searches made meanwhile: a folder *)
(* is monitored, a query is typed, and the reindex button is not clicked   *)
(* while a session thread is started but not yet at line 765.              *)
(***************************************************************************)

SeqInit ==
  /\ is_indexing = FALSE
  /\ index_cancelled = FALSE
  /\ monitor_dirs = Dirs
  /\ auto_index_interval = 0
  /\ ixdir = "index"
  /\ index \in {EmptyIndex, StoredIndex}
  /\ ix = "open"
  /\ writeLock = {}
  /\ nthreads = 0
  /\ pc = [t \in Threads |-> "unborn"]
  /\ files = [t \in Threads |-> {}]
  /\ jobs = [t \in Threads |-> [p \in Paths |-> "none"]]
  /\ seen = [t \in Threads |-> {}]
  /\ results = [t \in Threads |-> <<>>]
  /\ progress = [t \in Threads |-> <<>>]
  /\ cancelledAt = [t \in Threads |-> {}]
  /\ wpos = [t \in Threads |-> 0]
  /\ committed = [t \in Threads |-> {}]
  /\ outcome = [t \in Threads |-> "none"]
  /\ call = NoCall
  /\ search_var \in {<<t>> : t \in Terms}
  /\ mode_var = "OR"
  /\ sort_var = "relevance"
  /\ filters = Filters
  /\ current_results = << >>
  /\ unparsed = {}
  /\ snippet = NoSnippet
  /\ timer = "waiting"

\* No session thread is between Thread.start() and line 765.
NoneStarting == \A t \in Threads : pc[t] # "start"

SeqReindexClick == NoneStarting /\ ReindexClick

SeqNext ==
  \/ SeqReindexClick
  \/ OnSearch
  \/ \E t \in Threads : SetIndexing(t)
  \/ \E t \in Threads : ResetCancelled(t)
  \/ \E t \in Threads : ClearIndex(t)
  \/ \E t \in Threads : CollectFiles(t)
  \/ \E t \in Threads : \E p \in Paths : JobDone(t, p)
  \/ \E t \in Threads : LoopIter(t)
  \/ \E t \in Threads : OpenWriter(t)
  \/ \E t \in Threads : UpdateDocument(t)
  \/ \E t \in Threads : Commit(t)
  \/ \E t \in Threads : Report(t)
  \/ \E t \in Threads : Finish(t)

SpecSeq == SeqInit /\ [][SeqNext]_vars

(***************************************************************************)
(* The IndexManager alone: one caller constructs it and calls clear_index  *)
(* and index_files (without callbacks) in any order.                       *)
(***************************************************************************)

\* The path lists index_files is given: any paths, repeated or not.
PathLists == UNION {[1..n -> Paths] : n \in 0..MaxBatch}

\* The order the jobs of a run complete in.
Orders == {"submitted", "reversed"}

\* The paths whose parse_job returns the error tuple.
ErrSets == {{}, {1}}

Reverse(l) == [j \in 1..Len(l) |-> l[Len(l) + 1 - j]]

\* The loop at line 322 with no cancel_callback: results after the futures
\* of `done` were yielded in that order.  An iteration appends the result
\* of its own future or nothing, whatever was appended before.
TakeResults(res, done, errs) ==
  LET Appended(p) ==
        IterResults(<< >>, p, IF p \in errs THEN "err" ELSE "ok", FALSE) = <<p>>
  IN res \o SelectSeq(done, Appended)

\* results of a run over the path list l.
RunResults(l, order, errs) ==
  TakeResults(<< >>, IF order = "reversed" THEN Reverse(l) ELSE l, errs)

StoreInit ==
  /\ is_indexing = FALSE
  /\ index_cancelled = FALSE
  /\ monitor_dirs = {}
  /\ auto_index_interval = 0
  /\ ixdir \in {"absent", "empty", "index"}
  /\ index \in IF ixdir = "index" THEN {EmptyIndex, StoredIndex}
               ELSE {EmptyIndex}
  /\ ix = "unset"
  /\ writeLock = {}
  /\ nthreads = 0
  /\ pc = [t \in Threads |-> "unborn"]
  /\ files = [t \in Threads |-> {}]
  /\ jobs = [t \in Threads |-> [p \in Paths |-> "none"]]
  /\ seen = [t \in Threads |-> {}]
  /\ results = [t \in Threads |-> <<>>]
  /\ progress = [t \in Threads |-> <<>>]
  /\ cancelledAt = [t \in Threads |-> {}]
  /\ wpos = [t \in Threads |-> 0]
  /\ committed = [t \in Threads |-> {}]
  /\ outcome = [t \in Threads |-> "none"]
  /\ call = NoCall
  /\ search_var = << >>
  /\ mode_var = "OR"
  /\ sort_var = "relevance"
  /\ filters = Filters
  /\ current_results = << >>
  /\ unparsed = {}
  /\ snippet = NoSnippet
  /\ timer = "waiting"

\* What the IndexManager calls leave alone.
appState ==
  <<appVars, uiVars, nthreads, pc, runVars, writeVars, outcome, queryVars,
    current_results, otherVars>>

\* IndexManager.__init__: an absent directory is made and an empty index
\* created in it; open_dir then opens what the directory holds, and raises
\* EmptyIndexError when it holds no index.
Construct ==
  /\ IF ixdir = "absent"
     THEN /\ ixdir' = "index"
          /\ index' = EmptyIndex
          /\ ix' = "open"
          /\ call' = [NoCall EXCEPT !.op = "__init__"]
     ELSE IF ixdir = "empty"
     THEN /\ call' = [NoCall EXCEPT !.op = "__init__", !.raised = TRUE]
          /\ UNCHANGED <<ixdir, index, ix>>
     ELSE /\ ix' = "open"
          /\ call' = [NoCall EXCEPT !.op = "__init__"]
          /\ UNCHANGED <<ixdir, index>>
  /\ UNCHANGED <<writeLock, appState>>

\* clear_index, called on a constructed IndexManager.
StoreClear ==
  /\ ix # "unset"
  /\ \E failed \in SUBSET IndexFiles :
       \/ /\ clear_index_returns(failed)
          /\ call' = [NoCall EXCEPT !.op = "clear_index", !.failed = failed]
       \/ /\ clear_index_raises(failed)
          /\ call' = [NoCall EXCEPT !.op = "clear_index", !.failed = failed,
                                    !.raised = TRUE]
  /\ UNCHANGED <<ixdir, appState>>

\* index_files with no callbacks, from the submission of the jobs to the
\* commit: it returns with the batch committed, or raises (the writer, an
\* update_document or the commit) with the index as it was.
StoreIndexFiles ==
  /\ ix # "unset"
  /\ \E l \in PathLists, o \in Orders, e \in ErrSets :
       \/ /\ ix = "open"
          /\ index' = ApplyUpdates(index, RunResults(l, o, e))
          /\ call' = [NoCall EXCEPT !.op = "index_files", !.file_paths = l,
                                    !.order = o, !.errs = e]
       \/ /\ UNCHANGED index
          /\ call' = [NoCall EXCEPT !.op = "index_files", !.file_paths = l,
                                    !.order = o, !.errs = e, !.raised = TRUE]
  /\ UNCHANGED <<ixdir, ix, writeLock, appState>>

StoreNext ==
  \/ Construct
  \/ StoreClear
  \/ StoreIndexFiles

SpecStore == StoreInit /\ [][StoreNext]_vars

(***************************************************************************)
(* One Completed session run alone, and the searches before and after it.  *)
(***************************************************************************)

\* The files the monitored folders hold: the first n paths.
FolderSizes == (1..NumPaths) \cup (SearchLimit..(SearchLimit + Overflow))

UpTo(n) == [j \in 1..n |-> j]

SearchInit ==
  /\ is_indexing = FALSE
  /\ index_cancelled = FALSE
  /\ monitor_dirs = Dirs
  /\ auto_index_interval = 0
  /\ ixdir = "index"
  /\ index \in {EmptyIndex, StoredIndex}
  /\ ix = "open"
  /\ writeLock = {}
  /\ nthreads = 0
  /\ pc = [t \in Threads |-> "unborn"]
  /\ files = [t \in Threads |-> {}]
  /\ jobs = [t \in Threads |-> [p \in Paths |-> "none"]]
  /\ seen = [t \in Threads |-> {}]
  /\ results = [t \in Threads |-> <<>>]
  /\ progress = [t \in Threads |-> <<>>]
  /\ cancelledAt = [t \in Threads |-> {}]
  /\ wpos = [t \in Threads |-> 0]
  /\ committed = [t \in Threads |-> {}]
  /\ outcome = [t \in Threads |-> "none"]
  /\ call = NoCall
  /\ search_var \in Queries \cup {Unparsable}
  /\ mode_var \in {"AND", "OR"}
  /\ sort_var \in {"date", "relevance"}
  /\ filters \in {Filters \ unchecked : unchecked \in {{}} \cup {{f} : f \in Filters}}
  /\ current_results = << >>
  /\ unparsed \in {{}, {2}}
  /\ snippet = NoSnippet
  /\ timer = "waiting"

\* thread_target from line 765 to line 817 with no other thread running and
\* no request made meanwhile: clear_index, then index_files over the files
\* of the folders, every step returning; the session ends Completed.
CompletedSession ==
  /\ nthreads = 0
  /\ nthreads' = nthreads + 1
  /\ \E l \in {UpTo(n) : n \in FolderSizes}, o \in Orders, e \in ErrSets :
       /\ index' = ApplyUpdates(create_in(index, {}), RunResults(l, o, e))
       /\ call' = [NoCall EXCEPT !.op = "index_files", !.file_paths = l,
                                 !.order = o, !.errs = e]
  /\ UNCHANGED <<appVars, uiVars, writeLock, pc, runVars, writeVars, outcome,
                 ixdir, ix, queryVars, current_results, otherVars>>

SearchNext ==
  \/ CompletedSession
  \/ OnSearch

SpecSearch == SearchInit /\ [][SearchNext]_vars

(***************************************************************************)
(* One index_files run over more files than its pool is wide (max_workers  *)
(* is a parameter of index_files), from the submission of the jobs on,     *)
(* with cancel requests made meanwhile.                                    *)
(***************************************************************************)

\* Bounds of the pool model.
PoolWidth == 2            \* max_workers of the run
MaxQueued == 1            \* files beyond the width of the pool

PoolFiles == 1..(PoolWidth + MaxQueued)

PoolInit ==
  /\ is_indexing = TRUE
  /\ index_cancelled = FALSE
  /\ monitor_dirs = Dirs
  /\ auto_index_interval = 0
  /\ ixdir = "index"
  /\ index = EmptyIndex
  /\ ix = "open"
  /\ writeLock = {}
  /\ nthreads = 1
  /\ pc = [t \in Threads |-> IF t = 1 THEN "loop" ELSE "unborn"]
  /\ files = [t \in Threads |-> IF t = 1 THEN PoolFiles ELSE {}]
  /\ jobs = [t \in Threads |->
               [p \in PoolFiles |-> IF t = 1 THEN Submitted(PoolFiles, p, PoolWidth)
                                    ELSE "none"]]
  /\ seen = [t \in Threads |-> {}]
  /\ results = [t \in Threads |-> <<>>]
  /\ progress = [t \in Threads |-> <<>>]
  /\ cancelledAt = [t \in Threads |-> {}]
  /\ wpos = [t \in Threads |-> 0]
  /\ committed = [t \in Threads |-> {}]
  /\ outcome = [t \in Threads |-> "none"]
  /\ call = NoCall
  /\ search_var = << >>
  /\ mode_var = "OR"
  /\ sort_var = "relevance"
  /\ filters = Filters
  /\ current_results = << >>
  /\ unparsed = {}
  /\ snippet = NoSnippet
  /\ timer = "waiting"

\* The reindex button, pressed while the session runs.
CancelRequest == is_indexing /\ ReindexClick

PoolNext ==
  \/ CancelRequest
  \/ \E t \in Threads : \E p \in PoolFiles : JobStart(t, p, PoolWidth)
  \/ \E t \in Threads : \E p \in PoolFiles : JobDone(t, p)
  \/ \E t \in Threads : LoopIter(t)
  \/ \E t \in Threads : OpenWriter(t)
  \/ \E t \in Threads : UpdateDocument(t)
  \/ \E t \in Threads : Commit(t)
  \/ \E t \in Threads : Report(t)
  \/ \E t \in Threads : Finish(t)

SpecPool == PoolInit /\ [][PoolNext]_vars

(***************************************************************************)
(* _generate_snippet called on its own, on contents of one or two lines.   *)
(***************************************************************************)

Blanks(n) == [j \in 1..n |-> Blank]

\* A text of n characters: the letter, the character after it, then digits.
Body(n, letter, after) ==
  [j \in 1..n |-> IF j = 1 THEN letter
                  ELSE IF j = 2 THEN after
                  ELSE Digits[(j % 10) + 1]]

\* The lines: a text of a few characters, or of about SnippetMax, between
\* blanks.
SnippetLines ==
  {Blanks(lead) \o Body(n, letter, after) \o Blanks(trail) :
     lead \in 0..MaxPad, trail \in 0..MaxPad,
     n \in (1..3) \cup ((SnippetMax - 1)..(SnippetMax + MaxExcess)),
     letter \in {"k", "K"}, after \in {".", "0"}}

\* The contents: such a line alone or after a line of another word, and
\* contents without it.
SnippetContents ==
  SnippetLines \cup {<<"x", Newline>> \o l : l \in SnippetLines}
    \cup {<<"x">>, << >>, <<Blank, Newline, "x">>}

\* The queries, as their words.
SnippetQueries ==
  {<< <<"k">> >>, << <<"K">> >>, << <<"z">> >>, << >>,
   << <<"k">>, <<"3", "4">> >>}

SnippetInit ==
  /\ is_indexing = FALSE
  /\ index_cancelled = FALSE
  /\ monitor_dirs = {}
  /\ auto_index_interval = 0
  /\ ixdir = "index"
  /\ index = EmptyIndex
  /\ ix = "open"
  /\ writeLock = {}
  /\ nthreads = 0
  /\ pc = [t \in Threads |-> "unborn"]
  /\ files = [t \in Threads |-> {}]
  /\ jobs = [t \in Threads |-> [p \in Paths |-> "none"]]
  /\ seen = [t \in Threads |-> {}]
  /\ results = [t \in Threads |-> <<>>]
  /\ progress = [t \in Threads |-> <<>>]
  /\ cancelledAt = [t \in Threads |-> {}]
  /\ wpos = [t \in Threads |-> 0]
  /\ committed = [t \in Threads |-> {}]
  /\ outcome = [t \in Threads |-> "none"]
  /\ call = NoCall
  /\ search_var = << >>
  /\ mode_var = "OR"
  /\ sort_var = "relevance"
  /\ filters = Filters
  /\ current_results = << >>
  /\ unparsed = {}
  /\ snippet \in {[NoSnippet EXCEPT !.content = c, !.query = q] :
                    c \in SnippetContents, q \in SnippetQueries}
  /\ timer = "waiting"

\* The call: the snippet of the content for the query.
GenerateSnippet ==
  /\ snippet.returned = << >>
  /\ snippet' = _generate_snippet(snippet.content, snippet.query)
  /\ UNCHANGED <<appVars, uiVars, storeVars, nthreads, pc, runVars, writeVars,
                 outcome, mgrVars, unparsed, timer>>

SnippetNext == GenerateSnippet

SpecSnippet == SnippetInit /\ [][SnippetNext]_vars

(***************************************************************************)
(* Properties.                                                             *)
(***************************************************************************)

\* The run of session t polled cancel_callback and got true.
CancelSeen(t) == cancelledAt[t] # {}

\* The futures whose result the loop of session t took.
Taken(t) == seen[t] \ cancelledAt[t]

\* index_files of session t returned: its commit is done.
AfterCommit(t) == pc[t] \in {"report", "finish", "done"} /\ files[t] # {}

\* Every job of session t has finished and succeeded.
AllSucceeded(t) == \A p \in files[t] : jobs[t][p] = "ok"

\* The poll that followed the k-th completion returned true, with k < n.
CancelledEarly(t) ==
  AfterCommit(t) /\ CancelSeen(t) /\ AllSucceeded(t)
    /\ Cardinality(seen[t]) < total(t)

Active(t) ==
  pc[t] \in {"reset", "clear", "collect", "loop", "drain", "write", "report",
             "finish"}

\* C2: at most one reindex session is active at any time.
C2_OneSession == Cardinality({t \in Threads : Active(t)}) <= 1

\* C3: at most one index writer is open at any moment, and clear_index never
\* runs while a writer is open.
C3_WriteExclusive ==
  [][/\ \A t, u \in Threads :
          (pc'[t] = "write" /\ pc'[u] = "write") => t = u
     /\ \A t, u \in Threads :
          (pc[t] = "clear" /\ pc'[t] # "clear") => pc[u] # "write"]_vars

\* C4: every session that ran has reported an outcome when its thread ends,
\* and once no session thread is running the application is Idle again.
C4_ReturnsToIdle ==
  /\ \A t \in Threads :
       pc[t] \in {"done", "crashed"} =>
         outcome[t] \in {"Completed", "Cancelled", "NoFiles"}
  /\ (\A t \in Threads : pc[t] \in {"unborn", "start", "done", "crashed"})
       => ~is_indexing

\* C5: a reindex request that finds is_indexing true sets index_cancelled,
\* starts no session thread, leaves the index and is_indexing as they are.
C5_RequestWhileIndexingOnlyCancels ==
  [][(is_indexing /\ ReindexClick) =>
       /\ index_cancelled' = TRUE
       /\ nthreads' = nthreads
       /\ pc' = pc
       /\ index' = index
       /\ is_indexing' = is_indexing]_vars

C5_Witness ==
  /\ is_indexing
  /\ index_cancelled
  /\ nthreads = 1
  /\ pc[1] = "loop"

\* C6: while a writer is open, update_document and a failing
\* update_document or commit leave the visible index unchanged; the failure
\* leaves index_files and thread_target as an exception, and a session that
\* ended so never reports Completed.
C6_NoPartialCommit ==
  [][\A t \in Threads :
       /\ (pc[t] = "write" /\ (pc'[t] = "crashed" \/ wpos'[t] # wpos[t]))
            => (index' = index /\ committed'[t] = {})
       /\ (pc[t] = "write" /\ pc'[t] = "crashed") => outcome'[t] = "Raised"
       /\ pc[t] = "crashed" => (pc'[t] = "crashed" /\ outcome'[t] = "Raised")]_vars

C6_Witness ==
  \E t \in Threads :
    /\ pc[t] = "crashed"
    /\ Len(results[t]) = 2
    /\ wpos[t] >= 1
    /\ \A p \in Range(results[t]) : p \notin Range(index)

\* C7: the batch a run commits is exactly the successful jobs among the
\* results it took, so a failed job is left out and the others are kept; and
\* a run never ends by an exception inside the loop: one that raised did so in
\* clear_index or after the pool had drained.
C7_FailedJobsOmitted ==
  \A t \in Threads :
    /\ AfterCommit(t) =>
         committed[t] = {p \in Taken(t) : jobs[t][p] = "ok"}
    /\ (pc[t] = "crashed" /\ files[t] # {}) =>
         \A p \in files[t] : jobs[t][p] \in ParseOutcomes

C7_Witness ==
  \E t \in Threads :
    /\ AfterCommit(t)
    /\ \E p \in Taken(t) : jobs[t][p] = "err"
    /\ Cardinality(committed[t]) = 2

\* C8: the count a Completed session reports is the number of documents its
\* run committed.
C8_ReportedCountIsCommitted ==
  \A t \in Threads :
    outcome[t] = "Completed" => total(t) = Cardinality(committed[t])

\* C9: progress_callback is called once per completion the loop took, with
\* completed_count 1, 2, 3, ... never above total_count.
C9_ProgressOncePerCompletion ==
  \A t \in Threads :
    /\ progress[t] = [j \in 1..Cardinality(Taken(t)) |-> j]
    /\ Len(progress[t]) <= total(t)

\* C10: once a poll returned true in a run, that run calls progress_callback
\* no more and takes no further future or result.
C10_NothingAfterCancel ==
  [][\A t \in Threads :
       CancelSeen(t) =>
         /\ progress'[t] = progress[t]
         /\ results'[t] = results[t]
         /\ seen'[t] = seen[t]]_vars

C10_Witness ==
  \E t \in Threads :
    /\ CancelSeen(t)
    /\ pc[t] = "done"
    /\ progress[t] # <<>>
    /\ seen[t] # files[t]

\* The documents the index holds for the path p.
DocsOf(stored, p) == {j \in 1..Len(stored) : stored[j] = p}

\* C11: after any sequence of index_files runs and clear_index calls, also
\* runs whose path list holds a path more than once, the index holds at most
\* one document per path.
C11_OneDocumentPerPath ==
  \A p \in Paths : Cardinality(DocsOf(index, p)) <= 1

\* The index a Completed session over the path list l leaves when it ran
\* alone, its jobs completing in the order o and those of errs failing.
SessionIndex(l, o, e) == ApplyUpdates(EmptyIndex, RunResults(l, o, e))

\* The hits of the query of the search bar on the index `stored`, as a set.
HitSet(stored) == Range(search(stored, search_var, mode_var = "AND", sort_var))

\* The session that has just ended left the hits that a session over the
\* same files leaves whatever the order its jobs complete in.
SameHitsAsEverySession ==
  \A o \in Orders :
    HitSet(index') = HitSet(SessionIndex(call'.file_paths, o, call'.errs))

\* C12 as stated: two Completed sessions over the same unchanged files leave
\* the same index, so every query, in both modes and both sort orders, gets
\* the same set of hits after the one as after the other.
C12_SameHitsAfterReindex ==
  [][CompletedSession => SameHitsAsEverySession]_vars

\* C12, amended: they do whenever at most SearchLimit documents match the
\* query.  With more, the documents that tie at the cut come in docnum
\* order, which is the order the jobs of the session completed in.
C12_SameHitsBelowLimit ==
  [][(/\ CompletedSession
      /\ Len(Matching(index', search_var, mode_var = "AND")) <= SearchLimit)
       => SameHitsAsEverySession]_vars

C12_Witness ==
  /\ call.op = "index_files"
  /\ call.order = "reversed"
  /\ Len(index) = SearchLimit
  /\ Len(Matching(index, search_var, mode_var = "AND")) = SearchLimit
  /\ HitSet(index) = Range(index)

\* C13: every session clears the index before it ingests, so when a session
\* ends the index holds only documents that session committed: none of an
\* earlier session, none of the index found at start.
C13_OnlyOwnDocuments ==
  [][\A t \in Threads :
       (pc[t] # "done" /\ pc'[t] = "done") => Range(index') \subseteq committed'[t]]_vars

\* C14: a search made while a session is in its commit phase sees the index
\* as it was before the batch or as it is after it, never a part of the
\* batch: while the writer is open the index readers see does not change,
\* the commit brings in the whole batch in one step, and the hits of a
\* search made meanwhile are those of the index before the batch.
C14_SearchSeesWholeBatches ==
  [][\A t \in Threads :
       pc[t] = "write" =>
         /\ pc'[t] # "report" => index' = index
         /\ pc'[t] = "report" => index' = ApplyUpdates(index, results[t])
         /\ (OnSearch /\ call'.op = "search" /\ ~call'.raised) =>
              /\ call'.hits = search(index, search_var, mode_var = "AND",
                                     sort_var)
              /\ Range(call'.hits) \cap Range(results[t]) \subseteq Range(index)]_vars

C14_Witness ==
  \E t \in Threads :
    /\ pc[t] = "write"
    /\ Len(results[t]) >= 2
    /\ call.op = "search"
    /\ call.inbatch = {t}
    /\ \E j \in 1..wpos[t] :
         QueryMatches(results[t][j], search_var, group(mode_var = "AND"))
    /\ call.hits = << >>

\* C15: after clear_index returns the index is open and empty: no query, in
\* either mode and either sort order, has a hit, also when some index file
\* could not be removed on either attempt.
C15_ClearLeavesEmptyIndex ==
  [][(StoreClear /\ ~call'.raised) =>
       /\ ix' = "open"
       /\ \A q \in Queries, and_mode \in BOOLEAN, sort_by \in {"date", "relevance"} :
            search(index', q, and_mode, sort_by) = << >>]_vars

C15_Witness ==
  /\ call.op = "clear_index"
  /\ ~call.raised
  /\ {"toc", "segment"} \subseteq call.failed
  /\ ix = "open"
  /\ index = EmptyIndex

\* C16: constructing an IndexManager on a directory that is absent, exists
\* but is empty, or already holds an index always ends with an open index.
C16_ConstructionOpensIndex ==
  call.op = "__init__" => (~call.raised /\ ix = "open")

\* C17: search never returns more than 50 hits, however many documents
\* match.
C17_AtMostLimitHits ==
  /\ call.op = "search" => Len(call.hits) <= SearchLimit
  /\ Len(search(index, search_var, mode_var = "AND", sort_var)) <= SearchLimit

C17_Witness ==
  /\ call.op = "search"
  /\ Len(call.hits) = SearchLimit
  /\ Len(Matching(index, search_var, mode_var = "AND")) > SearchLimit

\* The checkbox that stands for the extension of document p.
BoxOf(p) ==
  IF Extension(p) \in {".xls", ".xlsx"} THEN "excel"
  ELSE IF Extension(p) = ".pdf" THEN "pdf"
  ELSE IF Extension(p) = ".hwpx" THEN "hwpx"
  ELSE "hwp"

\* C18: the list on_search shows is the capped list search returned for the
\* one query, less the hits whose extension is unchecked and in the same
\* order; no document from beyond the cap takes the place of a dropped hit.
C18_FilterAfterCap ==
  (call.op = "search" /\ ~call.raised) =>
    /\ call.hits = search(index, search_var, mode_var = "AND", sort_var)
    /\ current_results = SelectSeq(call.hits, LAMBDA p : BoxOf(p) \in filters)
    /\ Range(current_results) \subseteq Range(call.hits)

C18_Witness ==
  /\ call.op = "search"
  /\ Len(call.hits) = SearchLimit
  /\ Len(current_results) < SearchLimit
  /\ \E p \in Range(Matching(index, search_var, mode_var = "AND")) :
       p \notin Range(call.hits) /\ BoxOf(p) \in filters

\* C19: on an index where the query matches no more documents than the cap,
\* the paths a two-term query returns in AND mode are among those it
\* returns in OR mode.
C19_AndWithinOr ==
  (/\ Len(search_var) = 2
   /\ Len(Matching(index, search_var, FALSE)) <= SearchLimit) =>
    Range(search(index, search_var, TRUE, sort_var))
      \subseteq Range(search(index, search_var, FALSE, sort_var))

C19_Witness ==
  /\ Len(search_var) = 2
  /\ call.op = "search"
  /\ mode_var = "AND"
  /\ call.hits # << >>
  /\ Len(Matching(index, search_var, FALSE)) <= SearchLimit
  /\ Range(call.hits) # Range(search(index, search_var, FALSE, sort_var))

\* C20: with sort_by = "date" the hits come with non-increasing modified
\* timestamps, and they are the matching documents with the latest
\* timestamps: no matching document left out is newer than a hit.
C20_DateOrder ==
  (call.op = "search" /\ ~call.raised /\ sort_var = "date") =>
    /\ \A j, k \in 1..Len(call.hits) :
         j < k => Modified(call.hits[j]) >= Modified(call.hits[k])
    /\ \A p \in Range(Matching(index, search_var, mode_var = "AND")) :
         p \notin Range(call.hits) =>
           \A j \in 1..Len(call.hits) : Modified(p) <= Modified(call.hits[j])

C20_Witness ==
  /\ call.op = "search"
  /\ sort_var = "date"
  /\ Len(Matching(index, search_var, mode_var = "AND")) > SearchLimit
  /\ Len(call.hits) = SearchLimit
  /\ Modified(call.hits[1]) > Modified(call.hits[SearchLimit])

\* C30: an auto-index timer firing never cancels a session: _auto_index
\* starts a session when the application is Idle, changes nothing when it is
\* Indexing, and never sets index_cancelled, whatever a session thread that
\* is starting up does meanwhile.
C30_TimerNeverCancels ==
  [][(AutoIndex \/ AutoIndexCall) =>
       /\ index_cancelled' = index_cancelled
       /\ is_indexing => (nthreads' = nthreads /\ pc' = pc)]_vars

\* The query q, its terms joined by the group g, matches a field that holds
\* the terms ts.
FieldMatches(ts, q, g) ==
  IF g = "AndGroup"
  THEN \A j \in 1..Len(q) : q[j] \in ts
  ELSE \E j \in 1..Len(q) : q[j] \in ts

\* The file name of p alone matches the query of the search bar.
MatchesFilename(p) ==
  FieldMatches(FilenameTerms(p), search_var, group(mode_var = "AND"))

\* A run commits a document for every path of bad whose metadata was read.
UnparsedCommitted ==
  (call.op = "index_files" /\ ~call.raised) =>
    \A p \in (unparsed \cap Range(call.file_paths)) \ call.errs :
      p \in Range(index)

\* C21 as stated: a path whose text extraction fails but whose metadata can
\* be read is committed as a document with empty content; search returns
\* it for a query that matches its file name, and never for a query that
\* matches only terms of its content.
C21_FoundByFilenameOnly ==
  /\ UnparsedCommitted
  /\ (call.op = "search" /\ ~call.raised) =>
       \A p \in unparsed \cap Range(index) :
         p \in Range(call.hits) <=> MatchesFilename(p)

\* C21, amended: search returns it for a query that matches its file name
\* whenever at most SearchLimit documents match the query (with more it
\* competes for the SearchLimit places like every other document), and
\* never for a query its file name does not match.
C21_FoundByFilenameBelowLimit ==
  /\ UnparsedCommitted
  /\ (call.op = "search" /\ ~call.raised) =>
       \A p \in unparsed \cap Range(index) :
         /\ p \in Range(call.hits) => MatchesFilename(p)
         /\ (/\ MatchesFilename(p)
             /\ Len(Matching(index, search_var, mode_var = "AND")) <= SearchLimit)
              => p \in Range(call.hits)

C21_Witness ==
  /\ nthreads = 1
  /\ call.op = "search"
  /\ \E p \in unparsed \cap Range(index) :
       /\ search_var = <<"a", "b">>
       /\ mode_var = "AND"
       /\ FilenameTerms(p) = {"a"}
       /\ "b" \in Text(p)
       /\ p \notin Range(call.hits)
       /\ call.hits # << >>
       /\ p \in Range(search(index, <<"a">>, TRUE, sort_var))

\* C22: when the query string cannot be parsed, search does not raise: it
\* returns an empty list of hits (with a status that says why), and
\* on_search ends with the empty list shown.
C22_UnparsableQueryAnswered ==
  (call.op = "search" /\ search_var = Unparsable) =>
    /\ ~call.raised
    /\ call.hits = << >>
    /\ current_results = << >>

\* The line of the content the last _generate_snippet call took: the first
\* one a term of the query is in, as it stands in the content.
MatchedLine ==
  LET lines == Split(snippet.content)
      terms == query_terms(snippet.query)
  IN lines[CHOOSE i \in 1..Len(lines) :
             /\ LineMatches(lines[i], terms)
             /\ \A k \in 1..(i - 1) : ~LineMatches(lines[k], terms)]

\* C23 as stated: the text _generate_snippet selects has at most 103
\* characters; a matching line longer than 100 characters is cut to its
\* first 100 characters followed by the ellipsis, and a line of 100
\* characters or fewer is kept unchanged.
C23_LineCutAtLimit ==
  /\ Len(snippet.selected) <= SnippetMax + Len(Ellipsis)
  /\ snippet.found =>
       IF Len(MatchedLine) > SnippetMax
       THEN snippet.selected = SubSeq(MatchedLine, 1, SnippetMax) \o Ellipsis
       ELSE snippet.selected = MatchedLine

\* C23, amended: the selected text has at most 103 characters; the line is
\* first stripped of its leading and trailing blanks, and it is the
\* stripped line that is cut to its first 100 characters and the ellipsis
\* when it is longer than 100, and kept as it is otherwise.
C23_StrippedLineCutAtLimit ==
  /\ Len(snippet.selected) <= SnippetMax + Len(Ellipsis)
  /\ snippet.found =>
       IF Len(Strip(MatchedLine)) > SnippetMax
       THEN snippet.selected = SubSeq(Strip(MatchedLine), 1, SnippetMax) \o Ellipsis
       ELSE snippet.selected = Strip(MatchedLine)

C23_Witness ==
  /\ snippet.found
  /\ Len(Strip(MatchedLine)) = SnippetMax + 1
  /\ Len(MatchedLine) > SnippetMax + 1
  /\ Len(snippet.selected) = SnippetMax + Len(Ellipsis)
  /\ SubSeq(snippet.returned, 1, 5) = <<">", " ", "*", "*", "K">>

\* index_files of session t is in its commit phase or beyond it.
WriterOpened(t) ==
  \/ pc[t] \in {"write", "report", "finish"}
  \/ pc[t] = "done" /\ files[t] # {}

\* C24: the commit phase of index_files starts only after every job
\* submitted to the pool has finished, when the loop observed every
\* completion and when it stopped early on cancellation; a job still queued
\* at the cancellation is run, not dropped.
C24_CommitAfterDrain ==
  \A t \in Threads :
    WriterOpened(t) => \A p \in files[t] : jobs[t][p] \in ParseOutcomes

C24_Witness ==
  \E t \in Threads :
    /\ pc[t] = "write"
    /\ Cardinality(files[t]) > PoolWidth
    /\ CancelSeen(t)
    /\ Cardinality(seen[t]) = 1
    /\ \A p \in files[t] : jobs[t][p] \in ParseOutcomes

\* C25: when the removal of an index file fails on both attempts,
\* clear_index does not raise: it goes on to the other files and still
\* makes the new index and reopens it.
C25_ClearNeverRaises ==
  (call.op = "clear_index" /\ call.failed # {}) =>
    /\ ~call.raised
    /\ ix = "open"
    /\ index = EmptyIndex

\* The jobs of session t whose result the loop did not take: the one in hand
\* at the poll that returned true, and those that completed after it.
NotTaken(t) == cancelledAt[t] \cup (files[t] \ seen[t])

\* C26: the documents index_files writes and commits are exactly the
\* successful results the loop took before the first poll of
\* cancel_callback that returned true; the job that was in hand at that
\* poll and those that completed later are not written, although they ran.
C26_CommittedAreTakenBeforeCancel ==
  \A t \in Threads :
    AfterCommit(t) =>
      /\ committed[t] = Range(results[t])
      /\ committed[t] = {p \in Taken(t) : jobs[t][p] = "ok"}
      /\ CancelSeen(t) =>
           /\ NotTaken(t) \cap committed[t] = {}
           /\ \A p \in NotTaken(t) : jobs[t][p] \in ParseOutcomes

C26_Witness ==
  \E t \in Threads :
    /\ AfterCommit(t)
    /\ outcome[t] = "Cancelled"
    /\ committed[t] # {}
    /\ \E p \in cancelledAt[t] : jobs[t][p] = "ok"
    /\ \E p \in files[t] \ seen[t] : jobs[t][p] = "ok"

\* C27: a reindex request that arrives while is_indexing is true makes the
\* session in flight end Cancelled, and the flag it sets is not overwritten
\* by the session's own reset at line 766.  Stated for the first session:
\* while it is the only one started, index_cancelled can only be true
\* because such a request arrived during it, so from then on the flag stays
\* true and the session, when it ends, has reported Cancelled.
C27_RequestDuringSessionCancels ==
  [][(nthreads = 1 /\ index_cancelled) =>
       /\ index_cancelled'
       /\ (pc'[1] = "done" => outcome'[1] = "Cancelled")]_vars

\* C28: when a session reports Completed, the index then holds exactly the
\* paths of the session's file list whose jobs succeeded; no successfully
\* extracted path is missing and no other path is there.
C28_CompletedIndexIsSuccessful ==
  [][\A t \in Threads :
       (pc[t] = "report" /\ outcome'[t] = "Completed") =>
         Range(index') = {p \in files[t] : jobs[t][p] = "ok"}]_vars

\* C29: a session reports Cancelled only if some poll of cancel_callback in
\* index_files returned true; a session whose loop took every completion
\* reports Completed, also when a request arrives after the last poll.
C29_CancelledOnlyAfterTruePoll ==
  \A t \in Threads : outcome[t] = "Cancelled" => CancelSeen(t)

====
